---- MODULE Spec2Model ----
(***************************************************************************)
(* Bucket-policy handlers of cmd/bucket-policy-handlers.go:                *)
(* PutBucketPolicyHandler, updateObjectPermissions, fetchSaoDataId,        *)
(* contains, difference, DeleteBucketPolicyHandler, GetBucketPolicyHandler.*)
(*                                                                         *)
(* Strings the code splits or concatenates (resource patterns, object      *)
(* names, model keys) are sequences of tokens; "/" is a token of its own.  *)
(* A value that may be absent (a nil pointer, a missing record) is a       *)
(* sequence of length 0 or 1.                                              *)
(***************************************************************************)
EXTENDS Naturals, Sequences, FiniteSets

VARIABLES
    req,        \* per request slot: handler, position, locals, calls made, response
    extStore,   \* SAO record <DidManagerId>-minio_bucket_policy-<bucket>: payload, or absent
    localStore, \* bucket metadata policy.json: bytes, or absent
    perm,       \* SAO data ids that are publicly readable
    clock,      \* time of the last successful local metadata update or delete
    lastPut,    \* policy and write time of the last PutBucketPolicy that succeeded
    calc        \* one call of a helper function on its own: arguments and result

vars == <<req, extStore, localStore, perm, clock, lastPut, calc>>

\* ---------------------------------------------------------------- bounds
MaxFaults == 2
MaxClock == 3
MaxLen == 3
MaxStatements == 2

\* ------------------------------------------------------------- constants
Requests == {"r1", "r2"}
\* the slots used when the bucket's requests are submitted one at a time
Serial == {"r1"}
Bucket == "bkt"
Sep == "/"
Star == <<"*">>
DefaultVersion == "2012-10-17"
GetObjectAction == "s3:GetObject"

None == <<>>
Some(x) == <<x>>

\* ------------------------------------------------------- pure functions
RECURSIVE IndexOf(_, _, _)
IndexOf(s, tok, i) ==
    IF i > Len(s) THEN 0
    ELSE IF s[i] = tok THEN i
    ELSE IndexOf(s, tok, i + 1)

\* strings.Contains(objectName, "/")
HasSep(pattern) == IndexOf(pattern, Sep, 1) # 0

\* strings.SplitN(objectName, "/", 2)[1]
AfterFirstSep(pattern) ==
    SubSeq(pattern, IndexOf(pattern, Sep, 1) + 1, Len(pattern))

\* Resource.BucketName of a parsed resource: the pattern up to its first "/"
BucketNameOf(pattern) ==
    IF HasSep(pattern) THEN SubSeq(pattern, 1, IndexOf(pattern, Sep, 1) - 1)
    ELSE pattern

RECURSIVE contains(_, _)
contains(slice, str) ==
    IF slice = <<>> THEN FALSE
    ELSE IF Head(slice) = str THEN TRUE
    ELSE contains(Tail(slice), str)

\* a difference that also drops the repeated occurrences of a kept element
RECURSIVE differenceAsSet(_, _)
differenceAsSet(slice1, slice2) ==
    IF slice1 = <<>> THEN <<>>
    ELSE IF contains(slice2, Head(slice1)) THEN differenceAsSet(Tail(slice1), slice2)
    ELSE <<Head(slice1)>> \o differenceAsSet(Tail(slice1), slice2 \o <<Head(slice1)>>)

RECURSIVE difference(_, _)
difference(slice1, slice2) ==
    IF slice1 = <<>> THEN <<>>
    ELSE IF contains(slice2, Head(slice1)) THEN difference(Tail(slice1), slice2)
    ELSE <<Head(slice1)>> \o difference(Tail(slice1), slice2)

\* lines 164-166: addedObjectNames and removedObjectNames
\* a differ whose added set is every new name
DifferAllNew(originalObjectNames, newObjectNames) ==
    [added |-> newObjectNames,
     removed |-> difference(originalObjectNames, newObjectNames)]

Differ(originalObjectNames, newObjectNames) ==
    [added |-> difference(newObjectNames, originalObjectNames),
     removed |-> difference(originalObjectNames, newObjectNames)]

\* every order in which a Go map of the given keys can be ranged over
RECURSIVE RangeOrders(_)
RangeOrders(S) ==
    IF S = {} THEN {<<>>}
    ELSE UNION {{<<x>> \o rest : rest \in RangeOrders(S \ {x})} : x \in S}

\* lines 110-118 for the resources of one statement, ranged over in the order given
RECURSIVE ResourceNames(_, _)
ResourceNames(patterns, bucket) ==
    IF patterns = <<>> THEN <<>>
    ELSE LET objectName == Head(patterns)
             rest == ResourceNames(Tail(patterns), bucket)
         IN  IF HasSep(objectName) THEN <<AfterFirstSep(objectName)>> \o rest
             ELSE IF objectName = <<bucket>> THEN rest
             ELSE <<objectName>> \o rest

\* an extractor that does not look at the effect of a statement
QualifiesAnyEffect(statement) ==
    /\ "*" \in statement.Principal
    /\ GetObjectAction \in statement.Actions

\* lines 105-108: the statements whose resources are read
Qualifies(statement) ==
    /\ statement.Effect = "Allow"
    /\ "*" \in statement.Principal
    /\ GetObjectAction \in statement.Actions

\* extractObjectNames: the set of results, one per range order of the resource maps
RECURSIVE extractObjectNames(_, _)
extractObjectNames(statements, bucket) ==
    IF statements = <<>> THEN {<<>>}
    ELSE LET heads == IF Qualifies(Head(statements))
                      THEN {ResourceNames(o, bucket) :
                                o \in RangeOrders(Head(statements).Resources)}
                      ELSE {<<>>}
         IN  {h \o t : h \in heads, t \in extractObjectNames(Tail(statements), bucket)}

\* policy.ParseConfig: version and resource validation of the decoded document
ParseOk(raw, bucket) ==
    /\ raw.Version \in {"", DefaultVersion}
    /\ \A i \in 1..Len(raw.Statements) :
          /\ raw.Statements[i].Effect \in {"Allow", "Deny"}
          /\ \A p \in raw.Statements[i].Resources :
                BucketNameOf(p) \in {<<bucket>>, Star}

\* the in-memory policy a document decodes to (json.Unmarshal, ParseConfig)
Decode(bytes) == [Version |-> bytes.Version, Statements |-> bytes.Statements]

\* json.Marshal(bucketPolicy): the canonical serialization
Marshal(policy) ==
    [Version |-> policy.Version, Statements |-> policy.Statements, ws |-> "compact"]

\* the two backing keys of an object, in the order of the loop at line 262
DerivedKey(objectName, i) ==
    IF i = 1 THEN <<"file_">> \o objectName ELSE objectName \o <<"_info">>

\* fetchSaoDataId: the data id SAO holds under the model key
DataIdOf(key) == <<"data">> \o key

\* ------------------------------------------------------------ inputs
PublicRead(resources) ==
    [Effect |-> "Allow", Principal |-> {"*"}, Actions |-> {GetObjectAction},
     Resources |-> resources]

ObjA == <<Bucket, Sep, "a">>
ObjB == <<Bucket, Sep, "b">>
ObjAll == <<Bucket, Sep, "*">>

RawA ==
    [Version |-> DefaultVersion, Statements |-> <<PublicRead({ObjA})>>, ws |-> "pretty"]
RawAB ==
    [Version |-> DefaultVersion, Statements |-> <<PublicRead({ObjA, ObjB})>>,
     ws |-> "compact"]
RawStarB ==
    [Version |-> DefaultVersion, Statements |-> <<PublicRead({ObjAll, ObjB})>>,
     ws |-> "pretty"]
RawNoVersionB ==
    [Version |-> "", Statements |-> <<PublicRead({ObjB})>>, ws |-> "pretty"]
RawBadVersion ==
    [Version |-> "2008-10-17", Statements |-> <<PublicRead({ObjA})>>, ws |-> "pretty"]

\* request bodies a client submits
RawInputs == {RawA, RawAB, RawStarB, RawNoVersionB, RawBadVersion}

\* ------------------------------------------------------ request state
IdleReq ==
    [kind |-> "none", pc |-> "idle", raw |-> None, bucketPolicy |-> None,
     originalBucketPolicy |-> None, modelExists |-> FALSE,
     added |-> <<>>, removed |-> <<>>, todo |-> <<>>, sfx |-> 1, dataId |-> <<>>,
     calls |-> <<>>, outcome |-> "none", updatedAt |-> 0, faults |-> 0,
     body |-> None, hook |-> None, recAtLookup |-> FALSE, prior |-> None,
     budget |-> MaxFaults, cancelled |-> FALSE]

Call(op, key, add, res) == [op |-> op, key |-> key, add |-> add, res |-> res]

FaultResults == {"timeout", "noroute", "garbled", "err"}

\* the call is appended to the request's trace; a failure injected by the
\* environment uses up the request's fault budget
Logged(rec, op, key, add, res) ==
    [rec EXCEPT !.calls = Append(@, Call(op, key, add, res)),
                !.faults = IF res \in FaultResults THEN @ + 1 ELSE @]

CanFault(r) == req[r].faults < req[r].budget

\* the results a call that takes ctx can return: the context error once the
\* request's context is cancelled, else what the callee answers
Answers(r, results) == IF req[r].cancelled THEN {"canceled"} ELSE results

TransportFaults(r) == IF CanFault(r) THEN {"timeout", "noroute"} ELSE {}

\* writeErrorResponse / writeSuccessNoContent followed by return
Finish(rec, outcome) == [rec EXCEPT !.pc = "done", !.outcome = outcome]

\* a handler that never recognises the routing failure
IsNoRouteNever(err) == FALSE

\* line 146: strings.Contains(err.Error(), "no route to host")
IsNoRoute(err) == err = "noroute"

\* updateObjectPermissions without the early return of lines 244-247
UpdatePlanNoWildcardGuard(objectNames, addPermission) ==
    LET kept == SelectSeq(objectNames, LAMBDA n : n # Star)
    IN  [i \in 1..Len(kept) |->
            [objectName |-> kept[i], addPermission |-> addPermission]]

\* the loop of line 250 ending at the first "*" instead of passing over it
UpdatePlanStopAtWildcard(objectNames, addPermission) ==
    IF ~addPermission /\ contains(objectNames, Star) THEN <<>>
    ELSE LET stop == IndexOf(objectNames, Star, 1)
             kept == IF stop = 0 THEN objectNames ELSE SubSeq(objectNames, 1, stop - 1)
         IN  [i \in 1..Len(kept) |->
                 [objectName |-> kept[i], addPermission |-> addPermission]]

\* the loop of line 250 without the test of lines 251-254
UpdatePlanKeepWildcard(objectNames, addPermission) ==
    IF ~addPermission /\ contains(objectNames, Star) THEN <<>>
    ELSE [i \in 1..Len(objectNames) |->
             [objectName |-> objectNames[i], addPermission |-> addPermission]]

\* lines 244-254: the object names of one call that reach the loop body
UpdatePlan(objectNames, addPermission) ==
    IF ~addPermission /\ contains(objectNames, Star) THEN <<>>
    ELSE LET kept == SelectSeq(objectNames, LAMBDA n : n # Star)
         IN  [i \in 1..Len(kept) |->
                 [objectName |-> kept[i], addPermission |-> addPermission]]

\* the two updateObjectPermissions calls swapped
PropagationOrderRevokeFirst(added, removed) ==
    UpdatePlan(removed, FALSE) \o UpdatePlan(added, TRUE)

\* lines 168-169: the two updateObjectPermissions calls, in order
PropagationOrder(added, removed) ==
    UpdatePlan(added, TRUE) \o UpdatePlan(removed, FALSE)

PcAfterPlan(todo) == IF todo = <<>> THEN "Validate" ELSE "Resolve"

\* lines 159-170
WithDiff(rec, orig, newObjectNames, originalObjectNames) ==
    LET addedObjectNames == Differ(originalObjectNames, newObjectNames).added
        removedObjectNames == Differ(originalObjectNames, newObjectNames).removed
        todo == PropagationOrder(addedObjectNames, removedObjectNames)
    IN  [rec EXCEPT !.originalBucketPolicy = Some(orig),
                    !.added = addedObjectNames, !.removed = removedObjectNames,
                    !.todo = todo, !.sfx = 1, !.pc = PcAfterPlan(todo)]

\* lines 152-156: no previous policy anywhere, every new name is granted
WithoutPrevious(rec, newObjectNames) ==
    LET todo == UpdatePlan(newObjectNames, TRUE)
    IN  [rec EXCEPT !.originalBucketPolicy = None,
                    !.added = newObjectNames, !.removed = <<>>,
                    !.todo = todo, !.sfx = 1, !.pc = PcAfterPlan(todo)]

\* a handler for which every lookup failure is fatal
AfterLookupErrorAbort(rec, err) == Finish(rec, "Error")

\* lines 144-150
AfterLookupError(rec, err) ==
    IF IsNoRoute(err) THEN Finish(rec, "Error") ELSE [rec EXCEPT !.pc = "LocalGet"]

\* the end of the inner loop for the last key: on to the next object name
NextObject(rec) ==
    [rec EXCEPT !.todo = Tail(@), !.sfx = 1, !.dataId = <<>>,
                !.pc = PcAfterPlan(Tail(rec.todo))]

\* a failed key that ends the whole updateObjectPermissions call (return)
AfterKeyErrorReturn(rec) ==
    LET rest == SelectSeq(rec.todo,
                    LAMBDA u : u.addPermission # Head(rec.todo).addPermission)
    IN  [rec EXCEPT !.todo = rest, !.sfx = 1, !.dataId = <<>>,
                    !.pc = PcAfterPlan(rest)]

\* a failed key after which the loop of line 262 goes on to the object's next key
AfterKeyErrorNextKey(rec) ==
    IF rec.sfx = 1 THEN [rec EXCEPT !.sfx = 2, !.dataId = <<>>, !.pc = "Resolve"]
    ELSE NextObject(rec)

\* a failed key that ends the request with an error
AfterKeyErrorAbort(rec) == Finish(rec, "Error")

\* a failed key that is tried again
AfterKeyErrorRetry(rec) == [rec EXCEPT !.dataId = <<>>, !.pc = "Resolve"]

\* lines 264-267, 271-274, 277-280: continue nextObjectName
AfterKeyError(rec) == NextObject(rec)

\* no helper call is being looked at
NoCalc == [fn |-> "none", args |-> <<>>, out |-> None]

\* ------------------------------------------------------------- actions
Init ==
    /\ req = [r \in Requests |-> IdleReq]
    /\ extStore = None
    /\ localStore = None
    /\ perm = {}
    /\ clock = 0
    /\ lastPut = None
    /\ calc = NoCalc

\* the policy of the request that last used this slot, when it succeeded
PriorOf(rec) ==
    IF rec.kind = "Put" /\ rec.outcome = "Success" THEN rec.bucketPolicy ELSE None

\* a handler that goes on with a document the parser rejected
AfterParseErrorIgnored(rec) ==
    [rec EXCEPT !.bucketPolicy = Some(Decode(rec.raw[1])), !.pc = "GetModel"]

\* lines 93-100: the MalformedPolicy response and return
AfterParseError(rec) == Finish(rec, "MalformedPolicy")

\* lines 86-100: the body is read and parsed
Begin(r, raw) ==
    /\ req[r].pc \in {"idle", "done"}
    /\ LET rec == [IdleReq EXCEPT !.kind = "Put", !.raw = Some(raw),
                                  !.prior = PriorOf(req[r])]
       IN  req' = [req EXCEPT ![r] =
                IF ParseOk(raw, Bucket)
                THEN [rec EXCEPT !.bucketPolicy = Some(Decode(raw)), !.pc = "GetModel"]
                ELSE AfterParseError(rec)]
    /\ UNCHANGED <<extStore, localStore, perm, clock, lastPut, calc>>

PutBucketPolicy(r) == \E raw \in RawInputs : Begin(r, raw)

\* lines 130-134: api.SaoClient.GetModel(ctx, modelKey)
GetModel(r) ==
    /\ req[r].pc = "GetModel"
    /\ \E res \in Answers(r, (IF extStore # None THEN {"ok"} ELSE {"notfound"})
                                  \cup TransportFaults(r)) :
          LET rec == [Logged(req[r], "GetModel", <<>>, FALSE, res)
                          EXCEPT !.recAtLookup = (extStore # None)]
          IN  req' = [req EXCEPT ![r] =
                  IF res = "ok" THEN [rec EXCEPT !.pc = "Load"]
                  ELSE AfterLookupError(rec, res)]
    /\ UNCHANGED <<extStore, localStore, perm, clock, lastPut, calc>>

\* a handler that sets modelExists only when the payload decodes
AfterUnmarshalErrorNoModel(rec) == AfterLookupError(rec, "unmarshal")

\* lines 138-139: modelExists is set after json.Unmarshal whatever its result
AfterUnmarshalError(rec) ==
    AfterLookupError([rec EXCEPT !.modelExists = TRUE], "unmarshal")

\* lines 135-141: api.SaoClient.Load and json.Unmarshal of the payload
Load(r) ==
    /\ req[r].pc = "Load"
    /\ extStore # None
    /\ \E res \in Answers(r, {"ok"} \cup TransportFaults(r)
                                  \cup (IF CanFault(r) THEN {"garbled"} ELSE {})) :
          LET rec == Logged(req[r], "Load", <<>>, FALSE, res)
          IN  \/ /\ res = "ok"
                 /\ \E newObjectNames \in
                          extractObjectNames(rec.bucketPolicy[1].Statements, Bucket),
                       originalObjectNames \in
                          extractObjectNames(Decode(extStore[1]).Statements, Bucket) :
                       req' = [req EXCEPT ![r] =
                           WithDiff([rec EXCEPT !.modelExists = TRUE],
                                    Decode(extStore[1]),
                                    newObjectNames, originalObjectNames)]
              \/ /\ res = "garbled"
                 /\ req' = [req EXCEPT ![r] = AfterUnmarshalError(rec)]
              \/ /\ res \in {"timeout", "noroute", "canceled"}
                 /\ req' = [req EXCEPT ![r] = AfterLookupError(rec, res)]
    /\ UNCHANGED <<extStore, localStore, perm, clock, lastPut, calc>>

\* lines 151-157: globalPolicySys.Get(bucket)
LocalGet(r) ==
    /\ req[r].pc = "LocalGet"
    /\ \E res \in (IF localStore # None THEN {"ok"} ELSE {"notfound"})
                      \cup (IF CanFault(r) THEN {"err"} ELSE {}) :
          LET rec == Logged(req[r], "LocalGet", <<>>, FALSE, res)
          IN  \E newObjectNames \in
                    extractObjectNames(rec.bucketPolicy[1].Statements, Bucket) :
                 IF res = "ok"
                 THEN \E originalObjectNames \in
                          extractObjectNames(Decode(localStore[1]).Statements, Bucket) :
                         req' = [req EXCEPT ![r] =
                             WithDiff(rec, Decode(localStore[1]),
                                      newObjectNames, originalObjectNames)]
                 ELSE req' = [req EXCEPT ![r] = WithoutPrevious(rec, newObjectNames)]
    /\ UNCHANGED <<extStore, localStore, perm, clock, lastPut, calc>>

\* lines 262-267: fetchSaoDataId for the current key of the current object
Resolve(r) ==
    /\ req[r].pc = "Resolve"
    /\ LET unit == Head(req[r].todo)
           key == DerivedKey(unit.objectName, req[r].sfx)
       IN  \E res \in Answers(r, {"ok"} \cup (IF CanFault(r) THEN {"timeout"} ELSE {})) :
              LET rec == Logged(req[r], "Resolve", key, unit.addPermission, res)
              IN  req' = [req EXCEPT ![r] =
                      IF res = "ok"
                      THEN [rec EXCEPT !.dataId = DataIdOf(key), !.pc = "Mutate"]
                      ELSE AfterKeyError(rec)]
    /\ UNCHANGED <<extStore, localStore, perm, clock, lastPut, calc>>

\* the loop at line 262 after a key was handled without error
AfterMutateOk(rec) ==
    IF rec.sfx = 1 THEN [rec EXCEPT !.sfx = 2, !.dataId = <<>>, !.pc = "Resolve"]
    ELSE NextObject(rec)

\* lines 269-281: SetPublicPermission or UpdatePermission on the resolved id
Mutate(r) ==
    /\ req[r].pc = "Mutate"
    /\ LET unit == Head(req[r].todo)
           key == DerivedKey(unit.objectName, req[r].sfx)
           op == IF unit.addPermission THEN "Grant" ELSE "Revoke"
       IN  \E res \in Answers(r, {"ok"} \cup (IF CanFault(r) THEN {"timeout"} ELSE {})) :
              LET rec == Logged(req[r], op, key, unit.addPermission, res)
              IN  /\ req' = [req EXCEPT ![r] =
                         IF res = "ok" THEN AfterMutateOk(rec) ELSE AfterKeyError(rec)]
                  /\ perm' = IF res # "ok" THEN perm
                             ELSE IF unit.addPermission THEN perm \cup {req[r].dataId}
                             ELSE perm \ {req[r].dataId}
    /\ UNCHANGED <<extStore, localStore, clock, lastPut, calc>>

\* a handler without the version check
VersionOkAlways(bucketPolicy) == TRUE

\* line 173
VersionOk(bucketPolicy) == bucketPolicy.Version # ""

\* lines 172-176
Validate(r) ==
    /\ req[r].pc = "Validate"
    /\ req' = [req EXCEPT ![r] =
           IF ~VersionOk(req[r].bucketPolicy[1])
           THEN Finish(req[r], "InvalidVersion")
           ELSE [req[r] EXCEPT !.pc = "ExtWrite"]]
    /\ UNCHANGED <<extStore, localStore, perm, clock, lastPut, calc>>

\* a handler that only logs an update failure other than the routing failure
AfterUpdateSoft(rec, res) ==
    IF res = "noroute" THEN Finish(rec, "Error") ELSE [rec EXCEPT !.pc = "LocalWrite"]

\* a handler for which "No differences found" is an error like any other
AfterUpdateStrict(rec, res) ==
    IF res = "ok" THEN [rec EXCEPT !.pc = "LocalWrite"] ELSE Finish(rec, "Error")

\* lines 203-213: the result of UpdateModelQuick decides whether the handler goes on
AfterUpdate(rec, res) ==
    IF res \in {"ok", "nodiff"} THEN [rec EXCEPT !.pc = "LocalWrite"]
    ELSE Finish(rec, "Error")

\* a handler that only logs a failed create
AfterCreateSoft(rec, res) == [rec EXCEPT !.pc = "LocalWrite"]

\* lines 217-222: the result of CreateModel decides whether the handler goes on
AfterCreate(rec, res) ==
    IF res = "ok" THEN [rec EXCEPT !.pc = "LocalWrite"] ELSE Finish(rec, "Error")

\* lines 178-223: both serializations, then UpdateModelQuick or CreateModel
ExtWrite(r) ==
    /\ req[r].pc = "ExtWrite"
    /\ LET jsonData == Marshal(req[r].bucketPolicy[1])
       IN  IF req[r].modelExists
           THEN \E res \in Answers(r, (IF extStore = Some(jsonData) THEN {"nodiff"}
                                          ELSE {"ok"}) \cup TransportFaults(r)) :
                   /\ req' = [req EXCEPT ![r] =
                          AfterUpdate(Logged(req[r], "Update", <<>>, FALSE, res), res)]
                   /\ extStore' = IF res = "ok" THEN Some(jsonData) ELSE extStore
           ELSE \E res \in Answers(r, {"ok"} \cup TransportFaults(r)) :
                   /\ req' = [req EXCEPT ![r] =
                          AfterCreate(Logged(req[r], "Create", <<>>, FALSE, res), res)]
                   /\ extStore' = IF res = "ok" THEN Some(jsonData) ELSE extStore
    /\ UNCHANGED <<localStore, perm, clock, lastPut, calc>>

\* a handler that logs the failed local update and goes on to the hook
AfterLocalWriteErrorMasked(rec) == [rec EXCEPT !.pc = "Notify"]

\* lines 226-229: the handler after globalBucketMetadataSys.Update failed
AfterLocalWriteError(rec) == Finish(rec, "Error")

\* lines 225-229: globalBucketMetadataSys.Update(ctx, bucket, "policy.json", configData)
LocalWrite(r) ==
    /\ req[r].pc = "LocalWrite"
    /\ LET configData == Marshal(req[r].bucketPolicy[1])
       IN  \/ /\ clock < MaxClock
              /\ "ok" \in Answers(r, {"ok"})
              /\ clock' = clock + 1
              /\ localStore' = Some(configData)
              /\ req' = [req EXCEPT ![r] =
                     [Logged(req[r], "LocalWrite", <<>>, FALSE, "ok")
                         EXCEPT !.updatedAt = clock + 1, !.pc = "Notify"]]
           \/ /\ \E res \in Answers(r, IF CanFault(r) THEN {"err"} ELSE {}) :
                    req' = [req EXCEPT ![r] =
                        AfterLocalWriteError(
                            Logged(req[r], "LocalWrite", <<>>, FALSE, res))]
              /\ UNCHANGED <<clock, localStore>>
    /\ UNCHANGED <<extStore, perm, lastPut, calc>>

\* a handler that reports a failed hook to the client
AfterNotifyStrict(rec, res) ==
    IF res = "ok" THEN Finish(rec, "Success") ELSE Finish(rec, "Error")

\* lines 232-240: the hook's error goes to logger.LogIf, then the success response
AfterNotify(rec, res) == Finish(rec, "Success")

\* a hook event that carries the canonical serialization
SRBucketMetaCanonical(rec) ==
    [Policy |-> Some(Marshal(rec.bucketPolicy[1])), UpdatedAt |-> rec.updatedAt]

\* lines 232-237: madmin.SRBucketMeta{Policy: bucketPolicyBytes, UpdatedAt: updatedAt}
SRBucketMeta(rec) == [Policy |-> rec.raw, UpdatedAt |-> rec.updatedAt]

\* lines 231-240: the site replication hook, then the success response
Notify(r) ==
    /\ req[r].pc = "Notify"
    /\ \E res \in Answers(r, {"ok"} \cup (IF CanFault(r) THEN {"err"} ELSE {})) :
          LET rec == Logged(req[r], "Notify", <<>>, FALSE, res)
              event == SRBucketMeta(req[r])
          IN  req' = [req EXCEPT ![r] =
                  AfterNotify(
                      [rec EXCEPT !.hook = IF res = "ok" THEN Some(event) ELSE None],
                      res)]
    /\ lastPut' = Some([policy |-> req[r].bucketPolicy[1], at |-> req[r].updatedAt])
    /\ UNCHANGED <<extStore, localStore, perm, clock, calc>>

\* a delete handler that also removes the SAO record and revokes the public
\* read access of every object
DeleteBucketPolicyEverywhere(r) ==
    /\ req[r].pc \in {"idle", "done"}
    /\ clock < MaxClock
    /\ clock' = clock + 1
    /\ localStore' = None
    /\ extStore' = None
    /\ perm' = {}
    /\ req' = [req EXCEPT ![r] =
           Finish([Logged(Logged([IdleReq EXCEPT !.kind = "Delete"],
                                 "LocalDelete", <<>>, FALSE, "ok"),
                          "Notify", <<>>, FALSE, "ok")
                      EXCEPT !.updatedAt = clock + 1,
                             !.hook = Some([Policy |-> None, UpdatedAt |-> clock + 1])],
                  "Success")]
    /\ UNCHANGED <<lastPut, calc>>

\* DeleteBucketPolicyHandler, lines 355-369
DeleteBucketPolicy(r) ==
    /\ req[r].pc \in {"idle", "done"}
    /\ LET rec == [IdleReq EXCEPT !.kind = "Delete"]
       IN  \/ /\ clock < MaxClock
              /\ clock' = clock + 1
              /\ localStore' = None
              /\ \E res \in {"ok", "err"} :
                    LET event == [Policy |-> None, UpdatedAt |-> clock + 1]
                        done == [Logged(Logged(rec, "LocalDelete", <<>>, FALSE, "ok"),
                                        "Notify", <<>>, FALSE, res)
                                    EXCEPT !.updatedAt = clock + 1,
                                           !.hook = IF res = "ok" THEN Some(event)
                                                    ELSE None]
                    IN  req' = [req EXCEPT ![r] = Finish(done, "Success")]
           \/ /\ req' = [req EXCEPT ![r] =
                     Finish(Logged(rec, "LocalDelete", <<>>, FALSE, "err"), "Error")]
              /\ UNCHANGED <<clock, localStore>>
    /\ UNCHANGED <<extStore, perm, lastPut, calc>>

\* a GetBucketPolicyHandler that answers from the SAO record
GetBucketPolicyFromSao(rec) ==
    IF extStore = None
    THEN Finish(Logged(rec, "GetModel", <<>>, FALSE, "notfound"), "NoSuchBucketPolicy")
    ELSE Finish([Logged(rec, "Load", <<>>, FALSE, "ok")
                    EXCEPT !.body = Some(Marshal(Decode(extStore[1])))], "Success")

\* lines 399-412: the response of GetBucketPolicyHandler in the current state
GetBucketPolicyResponse(rec) ==
    IF localStore = None
    THEN Finish(Logged(rec, "LocalGet", <<>>, FALSE, "notfound"), "NoSuchBucketPolicy")
    ELSE Finish([Logged(rec, "LocalGet", <<>>, FALSE, "ok")
                    EXCEPT !.body = Some(Marshal(Decode(localStore[1])))], "Success")

\* GetBucketPolicyHandler
GetBucketPolicy(r) ==
    /\ req[r].pc \in {"idle", "done"}
    /\ req' = [req EXCEPT ![r] =
           GetBucketPolicyResponse([IdleReq EXCEPT !.kind = "Get", !.updatedAt = clock])]
    /\ UNCHANGED <<extStore, localStore, perm, clock, lastPut, calc>>

Next ==
    \/ \E r \in Serial : PutBucketPolicy(r)
    \/ \E r \in Serial : GetModel(r)
    \/ \E r \in Serial : Load(r)
    \/ \E r \in Serial : LocalGet(r)
    \/ \E r \in Serial : Resolve(r)
    \/ \E r \in Serial : Mutate(r)
    \/ \E r \in Serial : Validate(r)
    \/ \E r \in Serial : ExtWrite(r)
    \/ \E r \in Serial : LocalWrite(r)
    \/ \E r \in Serial : Notify(r)
    \/ \E r \in Serial : DeleteBucketPolicy(r)
    \/ \E r \in Serial : GetBucketPolicy(r)

Spec == Init /\ [][Next]_vars

\* ------------------------------------------- helper functions on their own
Idle ==
    /\ req = [r \in Requests |-> IdleReq]
    /\ extStore = None
    /\ localStore = None
    /\ perm = {}
    /\ clock = 0
    /\ lastPut = None

SeqsUpTo(S, n) == UNION {[1..k -> S] : k \in 0..n}

\* object names the two extracted lists are built from
DiffNames == {<<"a">>, <<"b">>, <<"c">>}

InitDiff ==
    /\ Idle
    /\ \E previous, next \in SeqsUpTo(DiffNames, MaxLen) :
          calc = [fn |-> "Differ", args |-> <<previous, next>>, out |-> None]

\* lines 164-166 applied to the two lists
ApplyDiffer ==
    /\ calc.fn = "Differ"
    /\ calc.out = None
    /\ calc' = [calc EXCEPT !.out = Some(Differ(calc.args[1], calc.args[2]))]
    /\ UNCHANGED <<req, extStore, localStore, perm, clock, lastPut>>

SpecDiff == InitDiff /\ [][ApplyDiffer]_vars

PutObjectAction == "s3:PutObject"

\* resource patterns: an object, the bucket root, the bare wildcard, an object
\* in a folder
ExtractPatterns == {ObjA, <<Bucket>>, Star, <<Bucket, Sep, "d", Sep, "a">>}

\* one statement that meets the three conditions of lines 105-108, and one
\* statement failing each of them
ExtractHeads ==
    {[Effect |-> "Allow", Principal |-> {"*", "arn:aws:iam::1:root"},
      Actions |-> {GetObjectAction, PutObjectAction}],
     [Effect |-> "Deny", Principal |-> {"*"}, Actions |-> {GetObjectAction}],
     [Effect |-> "Allow", Principal |-> {"arn:aws:iam::1:root"},
      Actions |-> {GetObjectAction}],
     [Effect |-> "Allow", Principal |-> {"*"}, Actions |-> {PutObjectAction}]}

ExtractStatements ==
    {[Effect |-> h.Effect, Principal |-> h.Principal, Actions |-> h.Actions,
      Resources |-> rs] : h \in ExtractHeads, rs \in (SUBSET ExtractPatterns) \ {{}}}

InitExtract ==
    /\ Idle
    /\ \E statements \in SeqsUpTo(ExtractStatements, MaxStatements) :
          calc = [fn |-> "extractObjectNames", args |-> <<statements>>, out |-> None]

\* extractObjectNames applied to the statements, the maps ranged over in some order
ApplyExtract ==
    /\ calc.fn = "extractObjectNames"
    /\ calc.out = None
    /\ \E objectNames \in extractObjectNames(calc.args[1], Bucket) :
          calc' = [calc EXCEPT !.out = Some(objectNames)]
    /\ UNCHANGED <<req, extStore, localStore, perm, clock, lastPut>>

SpecExtract == InitExtract /\ [][ApplyExtract]_vars

\* --------------------------------- policies that name an object twice
\* two statements that differ in their actions and both make object a readable
RawDupA ==
    [Version |-> DefaultVersion,
     Statements |-> <<PublicRead({ObjA}),
                      [Effect |-> "Allow", Principal |-> {"*"},
                       Actions |-> {GetObjectAction, PutObjectAction},
                       Resources |-> {ObjA}]>>,
     ws |-> "pretty"]

DupInputs == {RawDupA, RawStarB}

PutDuplicated(r) == \E raw \in DupInputs : Begin(r, raw)

NextDup ==
    \/ \E r \in Serial : PutDuplicated(r)
    \/ \E r \in Serial : GetModel(r)
    \/ \E r \in Serial : Load(r)
    \/ \E r \in Serial : LocalGet(r)
    \/ \E r \in Serial : Resolve(r)
    \/ \E r \in Serial : Mutate(r)
    \/ \E r \in Serial : Validate(r)
    \/ \E r \in Serial : ExtWrite(r)
    \/ \E r \in Serial : LocalWrite(r)
    \/ \E r \in Serial : Notify(r)

SpecDup == Init /\ [][NextDup]_vars

\* ------------------------------------------- the caller goes away
\* the request's context is cancelled while the handler runs
Cancel(r) ==
    /\ req[r].kind = "Put"
    /\ req[r].pc \notin {"idle", "done"}
    /\ ~req[r].cancelled
    /\ req' = [req EXCEPT ![r].cancelled = TRUE]
    /\ UNCHANGED <<extStore, localStore, perm, clock, lastPut, calc>>

NextCancel ==
    \/ \E r \in Serial : PutBucketPolicy(r)
    \/ \E r \in Serial : Cancel(r)
    \/ \E r \in Serial : GetModel(r)
    \/ \E r \in Serial : Load(r)
    \/ \E r \in Serial : LocalGet(r)
    \/ \E r \in Serial : Resolve(r)
    \/ \E r \in Serial : Mutate(r)
    \/ \E r \in Serial : Validate(r)
    \/ \E r \in Serial : ExtWrite(r)
    \/ \E r \in Serial : LocalWrite(r)
    \/ \E r \in Serial : Notify(r)

SpecCancel == Init /\ [][NextCancel]_vars

\* ------------------------------------- every call returns: progress
\* a request is taken while the clock of the local store can still advance
PutLive(r) == clock < MaxClock /\ PutBucketPolicy(r)

\* the handler's next call returns, with a result or an error
Step(r) ==
    \/ GetModel(r)
    \/ Load(r)
    \/ LocalGet(r)
    \/ Resolve(r)
    \/ Mutate(r)
    \/ Validate(r)
    \/ ExtWrite(r)
    \/ LocalWrite(r)
    \/ Notify(r)

NextLive ==
    \/ \E r \in Serial : PutLive(r)
    \/ \E r \in Serial : Step(r)

SpecLive == Init /\ [][NextLive]_vars /\ WF_vars(\E r \in Serial : Step(r))

\* ------------------------- requests one at a time, every call succeeding
\* policies none of whose resources is a wildcard
QuietInputs == {RawA, RawAB, RawNoVersionB}

\* lines 86-100 for a request all of whose calls get the answer of the stores
BeginQuiet(r, raw) ==
    /\ req[r].pc \in {"idle", "done"}
    /\ clock < MaxClock
    /\ LET rec == [IdleReq EXCEPT !.kind = "Put", !.raw = Some(raw),
                                  !.prior = PriorOf(req[r]), !.budget = 0]
       IN  req' = [req EXCEPT ![r] =
                IF ParseOk(raw, Bucket)
                THEN [rec EXCEPT !.bucketPolicy = Some(Decode(raw)), !.pc = "GetModel"]
                ELSE AfterParseError(rec)]
    /\ UNCHANGED <<extStore, localStore, perm, clock, lastPut, calc>>

PutQuiet(r) == \E raw \in QuietInputs : BeginQuiet(r, raw)

NextQuiet ==
    \/ \E r \in Serial : PutQuiet(r)
    \/ \E r \in Serial : Step(r)

SpecQuiet == Init /\ [][NextQuiet]_vars

\* ------------------------------------------ two requests for one bucket
\* a handler that takes a per-bucket lock before it reads the body
AdmitExclusive(r) ==
    /\ req[r].pc = "idle"
    /\ \A o \in Requests \ {r} : req[o].pc \in {"idle", "done"}

\* lines 46-100: the handler takes no lock and waits for no other request
Admit(r) == req[r].pc = "idle"

\* lines 46-100 for one of two clients, each submitting once; every call of
\* these requests gets the answer the stores give, none fails in transport
BeginConcurrent(r, raw) ==
    /\ Admit(r)
    /\ LET rec == [IdleReq EXCEPT !.kind = "Put", !.raw = Some(raw), !.budget = 0]
       IN  req' = [req EXCEPT ![r] =
                IF ParseOk(raw, Bucket)
                THEN [rec EXCEPT !.bucketPolicy = Some(Decode(raw)), !.pc = "GetModel"]
                ELSE AfterParseError(rec)]
    /\ UNCHANGED <<extStore, localStore, perm, clock, lastPut, calc>>

PutConcurrent(r) == \E raw \in RawInputs : BeginConcurrent(r, raw)

NextConc ==
    \/ \E r \in Requests : PutConcurrent(r)
    \/ \E r \in Requests : GetModel(r)
    \/ \E r \in Requests : Load(r)
    \/ \E r \in Requests : LocalGet(r)
    \/ \E r \in Requests : Resolve(r)
    \/ \E r \in Requests : Mutate(r)
    \/ \E r \in Requests : Validate(r)
    \/ \E r \in Requests : ExtWrite(r)
    \/ \E r \in Requests : LocalWrite(r)
    \/ \E r \in Requests : Notify(r)

SpecConc == Init /\ [][NextConc]_vars

\* ------------------------------------------------------ properties
Puts == {r \in Requests : req[r].kind = "Put"}

CallsOf(r) == {req[r].calls[i] : i \in DOMAIN req[r].calls}

OpsOf(r) == {c.op : c \in CallsOf(r)}

Made(r, op, res) == \E c \in CallsOf(r) : c.op = op /\ c.res = res

PropagationOps == {"Resolve", "Grant", "Revoke"}

MutationOps == {"Grant", "Revoke", "Create", "Update", "LocalWrite", "Notify"}

PolicyOf(r) == req[r].bucketPolicy[1]

Range(s) == {s[i] : i \in DOMAIN s}

\* s is what is left of from when the elements that occur in other are struck
\* out: the kept positions in their order, one element per kept position
IsRestOf(s, from, other) ==
    LET keep == {i \in DOMAIN from : from[i] \notin Range(other)}
    IN  /\ Len(s) = Cardinality(keep)
        /\ \A i \in keep : s[Cardinality({j \in keep : j <= i})] = from[i]

\* C1: a PutBucketPolicy request rejected for an empty version has made no
\* permission-store grant or revoke, no external-record create or update, no
\* local metadata write and no replication notification: none of these calls
\* has taken effect in it.
C1_EmptyVersionNoMutation ==
    \A r \in Puts :
        req[r].outcome = "InvalidVersion"
            => \A c \in CallsOf(r) : ~(c.op \in MutationOps /\ c.res = "ok")

C3_UnreachableLookupAborts ==
    \A r \in Puts :
        (Made(r, "GetModel", "noroute") \/ Made(r, "Load", "noroute"))
            => /\ req[r].pc = "done"
               /\ req[r].outcome = "Error"
               /\ OpsOf(r) \subseteq {"GetModel", "Load"}
               /\ req[r].hook = None

C3_Witness ==
    \E r \in Puts : Made(r, "GetModel", "ok") /\ Made(r, "Load", "noroute")

\* C4: GetBucketPolicy calls only the local metadata store, and a
\* GetBucketPolicy that follows a successful PutBucketPolicy with no local
\* write in between returns the canonical policy of that request, whatever the
\* external record holds.
C4_GetReadsLocal ==
    \A r \in Requests :
        req[r].kind = "Get"
            => /\ OpsOf(r) \subseteq {"LocalGet"}
               /\ (lastPut # None /\ req[r].updatedAt = lastPut[1].at)
                     => /\ req[r].outcome = "Success"
                        /\ req[r].body = Some(Marshal(lastPut[1].policy))

C4_Witness ==
    \E r \in Requests :
        /\ req[r].kind = "Get"
        /\ lastPut # None
        /\ req[r].updatedAt = lastPut[1].at
        /\ req[r].body = Some(Marshal(lastPut[1].policy))
        /\ extStore # req[r].body

\* C5: when the local metadata write fails the request ends with an error and
\* without a notification, also after a successful create or update; the
\* external record keeps the written policy and the grants and revokes made by
\* the request stay in the permission store.
C5_LocalWriteFailureIsHard ==
    \A r \in Puts :
        Made(r, "LocalWrite", "err")
            => /\ req[r].pc = "done"
               /\ req[r].outcome = "Error"
               /\ "Notify" \notin OpsOf(r)
               /\ req[r].hook = None
               /\ (Made(r, "Update", "ok") \/ Made(r, "Create", "ok"))
                     => extStore = Some(Marshal(PolicyOf(r)))
               /\ \A c \in CallsOf(r) :
                     /\ (c.op = "Grant" /\ c.res = "ok") => DataIdOf(c.key) \in perm
                     /\ (c.op = "Revoke" /\ c.res = "ok") => DataIdOf(c.key) \notin perm

C5_Witness ==
    \E r \in Puts :
        /\ Made(r, "LocalWrite", "err")
        /\ Made(r, "Update", "ok")
        /\ Made(r, "Grant", "ok")
        /\ Made(r, "Revoke", "ok")

\* C6: a request that resubmits the policy of the request before it, which
\* succeeded, with no call failing: the update reports no differences, nothing
\* is created, the local metadata write is made, the request succeeds and both
\* stores hold the canonical policy.
C6_ResubmitIsIdempotent ==
    \A r \in Puts :
        (/\ req[r].pc = "done"
         /\ req[r].prior # None
         /\ req[r].prior = req[r].bucketPolicy
         /\ req[r].faults = 0)
            => /\ req[r].outcome = "Success"
               /\ Made(r, "Update", "nodiff")
               /\ "Create" \notin OpsOf(r)
               /\ Made(r, "LocalWrite", "ok")
               /\ extStore = Some(Marshal(PolicyOf(r)))
               /\ localStore = Some(Marshal(PolicyOf(r)))

C6_Witness ==
    \E r \in Puts :
        /\ req[r].pc = "done"
        /\ req[r].prior # None
        /\ req[r].prior = req[r].bucketPolicy
        /\ req[r].faults = 0
        /\ Made(r, "Update", "nodiff")

\* C7: a request whose removed set contains "*" makes no revoke call.
C7_WildcardRemovedNoRevoke ==
    \A r \in Puts : contains(req[r].removed, Star) => "Revoke" \notin OpsOf(r)

C7_Witness ==
    \E r \in Puts :
        /\ req[r].pc = "done"
        /\ contains(req[r].removed, Star)
        /\ Len(req[r].removed) > 1
        /\ Made(r, "Grant", "ok")

BatchOf(r, add) == IF add THEN req[r].added ELSE req[r].removed

Propagated(r) ==
    req[r].pc \in {"Validate", "ExtWrite", "LocalWrite", "Notify", "done"}

\* C8: once propagation is over, a batch in which a resolve, grant or revoke
\* failed has had a resolve attempted for every object name other than "*";
\* a request aborted with an error was aborted by its last call, which is a
\* lookup or a persistence call; and a request with a version whose only
\* failures were propagation failures ends in success.
C8_PropagationFailuresAreSoft ==
    \A r \in Puts :
        /\ Propagated(r) =>
              \A add \in BOOLEAN :
                  (\E c \in CallsOf(r) :
                       c.op \in PropagationOps /\ c.add = add /\ c.res # "ok")
                  => \A i \in DOMAIN BatchOf(r, add) :
                        BatchOf(r, add)[i] # Star
                        => \E c \in CallsOf(r) :
                              /\ c.op = "Resolve"
                              /\ c.add = add
                              /\ c.key = DerivedKey(BatchOf(r, add)[i], 1)
        /\ req[r].outcome = "Error" =>
              LET last == req[r].calls[Len(req[r].calls)]
              IN  last.op \notin PropagationOps /\ last.res # "ok"
        /\ (/\ req[r].pc = "done"
            /\ req[r].bucketPolicy # None
            /\ PolicyOf(r).Version # ""
            /\ \A c \in CallsOf(r) : c.res \in FaultResults => c.op \in PropagationOps)
              => req[r].outcome = "Success"

C8_Witness ==
    \E r \in Puts :
        /\ req[r].outcome = "Success"
        /\ Len(req[r].added) = 2
        /\ \E c \in CallsOf(r) :
              /\ c.op = "Resolve" /\ c.res # "ok"
              /\ c.key = DerivedKey(req[r].added[1], 1)
        /\ \E c \in CallsOf(r) :
              /\ c.op = "Grant" /\ c.res = "ok"
              /\ c.key = DerivedKey(req[r].added[2], 2)

\* C9: an update is issued exactly for a bucket whose record exists at lookup
\* time and a create exactly for a bucket without one.
C9_CreateOnlyWhenAbsent ==
    \A r \in Puts :
        /\ "Create" \in OpsOf(r) => ~req[r].recAtLookup
        /\ "Update" \in OpsOf(r) => req[r].recAtLookup
        /\ req[r].pc \in {"LocalWrite", "Notify"} =>
              (IF req[r].recAtLookup THEN "Update" ELSE "Create") \in OpsOf(r)

\* C10: in one request no grant call follows a revoke call.
C10_GrantsBeforeRevokes ==
    \A r \in Puts :
        \A i, j \in DOMAIN req[r].calls :
            (req[r].calls[i].op = "Revoke" /\ req[r].calls[j].op = "Grant") => j < i

C10_Witness ==
    \E r \in Puts : Made(r, "Grant", "ok") /\ Made(r, "Revoke", "ok")

\* C11: the differ returns as added the elements of next that do not occur in
\* previous and as removed the elements of previous that do not occur in next,
\* by membership only, in the order and with the repetitions of the first
\* operand; previous = [a, b] and next = [b, c] give added = [c], removed = [a].
C11_DifferByMembership ==
    (calc.fn = "Differ" /\ calc.out # None)
        => LET previous == calc.args[1]
               next == calc.args[2]
           IN  /\ IsRestOf(calc.out[1].added, next, previous)
               /\ IsRestOf(calc.out[1].removed, previous, next)
               /\ (previous = <<<<"a">>, <<"b">>>> /\ next = <<<<"b">>, <<"c">>>>)
                     => calc.out[1] = [added |-> <<<<"c">>>>, removed |-> <<<<"a">>>>]

C11_Witness ==
    /\ calc.fn = "Differ"
    /\ calc.out # None
    /\ calc.args[1] = <<<<"a">>, <<"b">>, <<"a">>>>
    /\ calc.args[2] = <<<<"b">>, <<"c">>, <<"c">>>>
    /\ calc.out[1] = [added |-> <<<<"c">>, <<"c">>>>, removed |-> <<<<"a">>, <<"a">>>>]

\* the object name a resource pattern stands for, if any: what follows the
\* first separator, nothing for the bucket root, else the pattern itself
NameOfPattern(p, bucket) ==
    IF \E k \in DOMAIN p : p[k] = Sep
    THEN LET k == CHOOSE k \in DOMAIN p :
                      p[k] = Sep /\ \A j \in 1..(k - 1) : p[j] # Sep
         IN  Some([i \in 1..(Len(p) - k) |-> p[k + i]])
    ELSE IF p = <<bucket>> THEN None
    ELSE Some(p)

\* C12: the extractor returns names only from the statements with effect Allow,
\* the wildcard principal and the read-object action, and from each resource
\* pattern of such a statement exactly the name the pattern stands for: what
\* follows the first separator, nothing for the bucket root, the pattern itself
\* otherwise ("*" gives "*"); other statements contribute nothing.
C12_ExtractorNames ==
    (calc.fn = "extractObjectNames" /\ calc.out # None)
        => LET statements == calc.args[1]
               names == calc.out[1]
               sources == {<<i, p>> \in (DOMAIN statements) \X ExtractPatterns :
                              /\ statements[i].Effect = "Allow"
                              /\ "*" \in statements[i].Principal
                              /\ GetObjectAction \in statements[i].Actions
                              /\ p \in statements[i].Resources
                              /\ NameOfPattern(p, Bucket) # None}
           IN  /\ Len(names) = Cardinality(sources)
               /\ \A n \in Range(names) \cup
                            {NameOfPattern(sp[2], Bucket)[1] : sp \in sources} :
                     Cardinality({i \in DOMAIN names : names[i] = n})
                        = Cardinality({sp \in sources :
                                          NameOfPattern(sp[2], Bucket) = Some(n)})

C12_Witness ==
    /\ calc.fn = "extractObjectNames"
    /\ Len(calc.args[1]) = 2
    /\ calc.args[1][1].Effect = "Deny"
    /\ calc.args[1][2].Effect = "Allow"
    /\ calc.args[1][2].Resources = ExtractPatterns
    /\ calc.out = Some(<<Star, <<"d", Sep, "a">>, <<"a">>>>)

\* C13: a request whose local metadata write succeeded and that is over has
\* called the replication hook and reports success, whether the hook returned
\* an error or not, and in either case both stores hold the canonical
\* serialization of its policy.
C13_NotifyFailureNotSurfaced ==
    \A r \in Puts :
        (req[r].pc = "done" /\ Made(r, "LocalWrite", "ok"))
            => /\ "Notify" \in OpsOf(r)
               /\ req[r].outcome = "Success"
               /\ extStore = Some(Marshal(PolicyOf(r)))
               /\ localStore = Some(Marshal(PolicyOf(r)))

C13_Witness ==
    \E r \in Puts :
        /\ req[r].pc = "done"
        /\ Made(r, "LocalWrite", "ok")
        /\ Made(r, "Notify", "err")
        /\ req[r].hook = None
        /\ req[r].outcome = "Success"

\* C14: a request that reports success has had its external record created or
\* updated (or found without differences) and its local metadata written, and
\* with requests served one at a time both stores then hold the canonical
\* serialization of the submitted policy.
C14_SuccessMeansBothWrites ==
    \A r \in Puts :
        req[r].outcome = "Success"
            => /\ \/ Made(r, "Update", "ok")
                  \/ Made(r, "Update", "nodiff")
                  \/ Made(r, "Create", "ok")
               /\ Made(r, "LocalWrite", "ok")
               /\ extStore = Some(Marshal(Decode(req[r].raw[1])))
               /\ localStore = extStore

C14_Witness ==
    \E r \in Puts :
        /\ req[r].outcome = "Success"
        /\ Made(r, "Create", "ok")
        /\ req[r].raw = Some(RawA)
        /\ extStore = Some(Marshal(Decode(RawA)))
        /\ localStore = extStore

\* C15: a request whose body the policy parser rejects is answered with
\* MalformedPolicy and has made no call at all: no lookup, no permission-store
\* call, no external-record or local write and no notification.
C15_ParseErrorNoStateChange ==
    \A r \in Puts :
        ~ParseOk(req[r].raw[1], Bucket)
            => /\ req[r].pc = "done"
               /\ req[r].outcome = "MalformedPolicy"
               /\ req[r].calls = <<>>
               /\ req[r].hook = None
               /\ req[r].bucketPolicy = None

C15_Witness ==
    \E r \in Puts :
        /\ ~ParseOk(req[r].raw[1], Bucket)
        /\ req[r].outcome = "MalformedPolicy"
        /\ req[r].prior # None
        /\ localStore = Some(Marshal(req[r].prior[1]))

ExtWrote(r) == Made(r, "Create", "ok") \/ Made(r, "Update", "ok")

\* C16: two requests for one bucket are not serialized and the last write wins
\* on each store on its own: a client that has not submitted yet can always
\* start, whatever the other request is doing; the local store holds the policy
\* of the request that wrote it last; the external record holds the policy of a
\* request that wrote it, of the only one if there is only one. (The final state
\* with different policies in the two stores is C16_Witness.)
C16_LastWriteWins ==
    /\ \A r \in Requests : req[r].pc = "idle" => ENABLED PutConcurrent(r)
    /\ \A r \in Puts :
          (Made(r, "LocalWrite", "ok") /\ req[r].updatedAt = clock)
              => localStore = Some(Marshal(PolicyOf(r)))
    /\ extStore \in {None} \cup {Some(Marshal(PolicyOf(r))) : r \in {p \in Puts : ExtWrote(p)}}
    /\ \A r \in Puts :
          (ExtWrote(r) /\ \A o \in Puts \ {r} : ~ExtWrote(o))
              => extStore = Some(Marshal(PolicyOf(r)))

\* both requests succeeded, the two stores hold different requests' policies,
\* and one request diffed against "no previous policy" although the other has
\* written one
C16_Witness ==
    /\ \A r \in Requests : req[r].pc = "done" /\ req[r].outcome = "Success"
    /\ extStore # localStore
    /\ \E r \in Requests : req[r].originalBucketPolicy = None /\ Made(r, "Create", "ok")
    /\ \E r \in Requests : localStore = Some(Marshal(PolicyOf(r)))
    /\ \E r \in Requests : extStore = Some(Marshal(PolicyOf(r)))

\* the number of calls of a request to one operation with one key and direction
NumCalls(r, ops, key, add) ==
    Cardinality({i \in DOMAIN req[r].calls :
                    /\ req[r].calls[i].op \in ops
                    /\ req[r].calls[i].key = key
                    /\ req[r].calls[i].add = add})

Occurrences(s, x) == Cardinality({i \in DOMAIN s : s[i] = x})

\* no call outside propagation is made twice, each propagation call is for a
\* key of a name of its delta set, and a key gets no more grants or revokes
\* than successful resolves
NoRepeatOutsidePropagation(r) ==
    /\ \A op \in {"GetModel", "Load", "LocalGet", "LocalWrite", "Notify"} :
          NumCalls(r, {op}, <<>>, FALSE) <= 1
    /\ NumCalls(r, {"Create", "Update"}, <<>>, FALSE) <= 1
    /\ \A c \in CallsOf(r) :
          c.op \in PropagationOps
              => /\ \E n \in Range(BatchOf(r, c.add)), i \in 1..2 :
                       c.key = DerivedKey(n, i)
                 /\ NumCalls(r, {"Grant", "Revoke"}, c.key, c.add)
                       <= NumCalls(r, {"Resolve"}, c.key, c.add)

\* C17 as stated: ..., and in each delta set each derived key of an object
\* name is resolved at most once.
C17_EachKeyResolvedOnce ==
    \A r \in Puts :
        /\ NoRepeatOutsidePropagation(r)
        /\ \A c \in CallsOf(r) : NumCalls(r, {"Resolve"}, c.key, c.add) <= 1

\* C17: in one request the external-record lookup, the record load, the
\* previous-policy read, the create or update, the local metadata write and
\* the notification are each issued at most once; in each delta set each
\* derived key of an object name is resolved at most once for each time the
\* name occurs in the set, and gets at most one grant or revoke per resolve.
C17_NoRetry ==
    \A r \in Puts :
        /\ NoRepeatOutsidePropagation(r)
        /\ \A add \in BOOLEAN :
              \A n \in Range(BatchOf(r, add)), i \in 1..2 :
                  NumCalls(r, {"Resolve"}, DerivedKey(n, i), add)
                      <= Occurrences(BatchOf(r, add), n)

C17_Witness ==
    \E r \in Puts :
        /\ req[r].pc = "done"
        /\ req[r].removed = <<<<"a">>, <<"a">>>>
        /\ NumCalls(r, {"Resolve"}, DerivedKey(<<"a">>, 1), FALSE) = 2
        /\ NumCalls(r, {"Revoke"}, DerivedKey(<<"a">>, 1), FALSE) = 1
        /\ Made(r, "Resolve", "timeout")
        /\ Made(r, "Update", "timeout")

\* C18: a call that failed with the cancellation of the caller's context is
\* the last call of its request, and the request has ended with an error.
C18_CancelStopsRequest ==
    \A r \in Puts :
        \A i \in DOMAIN req[r].calls :
            req[r].calls[i].res = "canceled"
                => /\ i = Len(req[r].calls)
                   /\ req[r].pc = "done"
                   /\ req[r].outcome = "Error"

MutateOp(add) == IF add THEN "Grant" ELSE "Revoke"

HasCall(r, op, key, add) ==
    \E c \in CallsOf(r) : c.op = op /\ c.key = key /\ c.add = add

HasOkCall(r, op, key, add) ==
    \E c \in CallsOf(r) : c.op = op /\ c.key = key /\ c.add = add /\ c.res = "ok"

NoPropagationFailure(r, add) ==
    \A c \in CallsOf(r) : (c.op \in PropagationOps /\ c.add = add) => c.res = "ok"

\* C19 as stated: once propagation is over and no propagation call failed,
\* every name other than "*" of either delta set, whatever else the set
\* contains, has had both derived keys resolved and granted or revoked.
C19_EveryNameProcessed ==
    \A r \in Puts :
        \A add \in BOOLEAN :
            (Propagated(r) /\ NoPropagationFailure(r, add))
                => \A n \in Range(BatchOf(r, add)) \ {Star} :
                      \A i \in 1..2 :
                          /\ HasOkCall(r, "Resolve", DerivedKey(n, i), add)
                          /\ HasOkCall(r, MutateOp(add), DerivedKey(n, i), add)

\* C19: once propagation is over, a removed set that contains "*" has had no
\* call made for any of its names; in every other delta set each name other
\* than "*", whatever else the set contains, has had its first derived key
\* resolved, a resolved key granted (added) or revoked (removed), and its second
\* derived key resolved once the first was granted or revoked; no call is made
\* for "*" itself.
C19_NamesProcessedUnlessWildcardRemoved ==
    \A r \in Puts :
        Propagated(r) =>
            \A add \in BOOLEAN :
                IF ~add /\ contains(BatchOf(r, add), Star)
                THEN \A c \in CallsOf(r) : c.op \in PropagationOps => c.add
                ELSE /\ \A n \in Range(BatchOf(r, add)) \ {Star} :
                          /\ HasCall(r, "Resolve", DerivedKey(n, 1), add)
                          /\ HasOkCall(r, MutateOp(add), DerivedKey(n, 1), add)
                                => HasCall(r, "Resolve", DerivedKey(n, 2), add)
                          /\ \A i \in 1..2 :
                                HasOkCall(r, "Resolve", DerivedKey(n, i), add)
                                    => HasCall(r, MutateOp(add), DerivedKey(n, i), add)
                     /\ \A i \in 1..2 :
                          ~HasCall(r, "Resolve", DerivedKey(Star, i), add)

C19_Witness ==
    \E r \in Puts :
        /\ req[r].pc = "done"
        /\ req[r].removed = <<<<"a">>>>
        /\ contains(req[r].added, Star)
        /\ HasOkCall(r, "Revoke", DerivedKey(<<"a">>, 2), FALSE)
        /\ HasOkCall(r, "Grant", DerivedKey(<<"b">>, 2), TRUE)

\* C20: a request whose added set contains "*" makes no resolve and no grant
\* call for "*", and once propagation is over with no propagation call failed
\* every other name of the added set has had both derived keys resolved and
\* granted.
C20_WildcardAddedSkippedAlone ==
    \A r \in Puts :
        contains(req[r].added, Star)
            => /\ \A c \in CallsOf(r), i \in 1..2 : c.key # DerivedKey(Star, i)
               /\ (Propagated(r) /\ NoPropagationFailure(r, TRUE))
                     => \A n \in Range(req[r].added) \ {Star} :
                           \A i \in 1..2 :
                               /\ HasOkCall(r, "Resolve", DerivedKey(n, i), TRUE)
                               /\ HasOkCall(r, "Grant", DerivedKey(n, i), TRUE)
                               /\ DataIdOf(DerivedKey(n, i)) \in perm

C20_Witness ==
    \E r \in Puts :
        /\ Propagated(r)
        /\ req[r].originalBucketPolicy = None
        /\ Len(req[r].added) = 2
        /\ req[r].added[1] = Star
        /\ NoPropagationFailure(r, TRUE)
        /\ HasOkCall(r, "Grant", DerivedKey(req[r].added[2], 2), TRUE)

\* the object names of the two delta sets of a request that reach the loop body
NamesIn(r) == (Range(req[r].added) \cup Range(req[r].removed)) \ {Star}

\* C21: every call for the sidecar key (<name>_info) of an object comes after
\* a successful grant or revoke of its primary key (file_<name>) in the same
\* delta set; after a failed resolve, grant or revoke of the primary key no
\* call is made for the sidecar key; and when the sidecar key fails after the
\* primary key was granted or revoked, the primary key's change stays in the
\* permission store and no call of the request undoes it.
C21_PrimaryThenSidecar ==
    \A r \in Puts :
        \A n \in NamesIn(r), add \in BOOLEAN :
            LET primary == DerivedKey(n, 1)
                sidecar == DerivedKey(n, 2)
                calls == req[r].calls
            IN  /\ \A j \in DOMAIN calls :
                      (calls[j].key = sidecar /\ calls[j].add = add)
                          => \E i \in 1..(j - 1) :
                                /\ calls[i].op = MutateOp(add)
                                /\ calls[i].key = primary
                                /\ calls[i].add = add
                                /\ calls[i].res = "ok"
                /\ (\E c \in CallsOf(r) :
                        c.key = primary /\ c.add = add /\ c.res # "ok")
                      => ~\E c \in CallsOf(r) : c.key = sidecar /\ c.add = add
                /\ (/\ HasOkCall(r, MutateOp(add), primary, add)
                    /\ \E c \in CallsOf(r) :
                          c.key = sidecar /\ c.add = add /\ c.res # "ok")
                      => /\ (DataIdOf(primary) \in perm) = add
                         /\ ~HasCall(r, MutateOp(~add), primary, ~add)

C21_Witness ==
    \E r \in Puts :
        /\ req[r].pc = "done"
        /\ HasOkCall(r, "Grant", DerivedKey(<<"b">>, 1), TRUE)
        /\ HasCall(r, "Grant", DerivedKey(<<"b">>, 2), TRUE)
        /\ ~HasOkCall(r, "Grant", DerivedKey(<<"b">>, 2), TRUE)
        /\ DataIdOf(DerivedKey(<<"b">>, 1)) \in perm
        /\ DataIdOf(DerivedKey(<<"b">>, 2)) \notin perm

\* the object names a policy makes publicly readable
NamesOf(policy) ==
    Range(CHOOSE names \in extractObjectNames(policy.Statements, Bucket) : TRUE)

LookupFailedSoftly(r) ==
    \E c \in CallsOf(r) :
        c.op \in {"GetModel", "Load"} /\ c.res \notin {"ok", "noroute"}

BeforeLocalWrite(r) ==
    req[r].pc \in {"Resolve", "Mutate", "Validate", "ExtWrite", "LocalWrite"}

\* C22: a request whose lookup of the external record failed with anything but
\* the routing failure is not aborted by it: it reads the local store; with a
\* local policy it diffs against that policy; without one it has no previous
\* policy, its added set is the names of the new policy, its removed set is
\* empty and it makes no revoke call.
C22_LookupFallsBackToLocal ==
    \A r \in Puts :
        LookupFailedSoftly(r)
            => /\ req[r].pc # "LocalGet" => "LocalGet" \in OpsOf(r)
               /\ (Made(r, "LocalGet", "ok") /\ BeforeLocalWrite(r))
                     => /\ req[r].originalBucketPolicy = Some(Decode(localStore[1]))
                        /\ Range(req[r].added) =
                              NamesOf(PolicyOf(r)) \ NamesOf(Decode(localStore[1]))
                        /\ Range(req[r].removed) =
                              NamesOf(Decode(localStore[1])) \ NamesOf(PolicyOf(r))
               /\ ("LocalGet" \in OpsOf(r) /\ ~Made(r, "LocalGet", "ok"))
                     => /\ req[r].originalBucketPolicy = None
                        /\ req[r].added \in
                              extractObjectNames(PolicyOf(r).Statements, Bucket)
                        /\ req[r].removed = <<>>
                        /\ "Revoke" \notin OpsOf(r)

C22_Witness ==
    \E r \in Puts :
        /\ Made(r, "Load", "garbled")
        /\ Made(r, "LocalGet", "ok")
        /\ Made(r, "Revoke", "ok")
        /\ Made(r, "Grant", "ok")
        /\ req[r].outcome = "Success"

PersistenceOps == {"Create", "Update", "LocalWrite"}

\* C23: a request whose policy has an empty version never gets past the version
\* check: it issues no create, no update and no local write and is never in a
\* persistence step; and neither store ever holds a policy with an empty version.
C23_ValidationBeforePersistence ==
    /\ \A r \in Puts :
          (req[r].bucketPolicy # None /\ PolicyOf(r).Version = "")
              => /\ OpsOf(r) \cap (PersistenceOps \cup {"Notify"}) = {}
                 /\ req[r].pc \notin {"ExtWrite", "LocalWrite", "Notify"}
                 /\ req[r].outcome # "Success"
    /\ extStore # None => extStore[1].Version # ""
    /\ localStore # None => localStore[1].Version # ""

C23_Witness ==
    \E r \in Puts :
        /\ req[r].outcome = "InvalidVersion"
        /\ PolicyOf(r).Version = ""
        /\ Made(r, "Grant", "ok")
        /\ extStore # None
        /\ localStore = extStore

\* the position of a handler step in the order lookup, previous policy,
\* propagation, validation, persistence, notification, response
Rank(pc) ==
    CASE pc = "idle" -> 0
      [] pc = "GetModel" -> 1
      [] pc = "Load" -> 2
      [] pc = "LocalGet" -> 3
      [] pc \in {"Resolve", "Mutate"} -> 4
      [] pc = "Validate" -> 5
      [] pc = "ExtWrite" -> 6
      [] pc = "LocalWrite" -> 7
      [] pc = "Notify" -> 8
      [] pc = "done" -> 9

InFlight(r) == req[r].pc \notin {"idle", "done"}

\* C24: a request in flight only moves forward in the order lookup, previous
\* policy, propagation, validation, persistence, notification; it ends with a
\* failure only out of the lookup, the validation or a persistence step, never
\* out of the previous-policy read or propagation, and with success only out of
\* the notification; it has an outcome exactly when it is over; and, every call
\* returning, a request in flight is eventually over.
C24_OrderedAndTerminating ==
    /\ [][\A r \in Requests :
              InFlight(r)
                  => /\ Rank(req'[r].pc) >= Rank(req[r].pc)
                     /\ (req'[r].pc = "done" /\ req'[r].outcome # "Success")
                           => req[r].pc \in {"GetModel", "Load", "Validate",
                                             "ExtWrite", "LocalWrite"}
                     /\ (req'[r].pc = "done" /\ req'[r].outcome = "Success")
                           => req[r].pc = "Notify"]_vars
    /\ [](\A r \in Puts :
              /\ (req[r].pc = "done") <=> (req[r].outcome # "none")
              /\ req[r].outcome \in {"none", "Success", "Error", "InvalidVersion",
                                     "MalformedPolicy"})
    /\ \A r \in Serial : InFlight(r) ~> (req[r].pc = "done")

C24_Witness ==
    \E r \in Puts :
        /\ req[r].pc = "done"
        /\ req[r].outcome = "Error"
        /\ Made(r, "Resolve", "timeout")
        /\ Made(r, "LocalWrite", "err")
        /\ Made(r, "Update", "ok")

\* C25: a request calls the replication hook at most once and only after its
\* local metadata write succeeded; the event it hands over carries the bytes
\* as submitted and the timestamp of that local write; a request that ended
\* without success has not called the hook.
C25_NotifyOnceAfterLocalWrite ==
    \A r \in Puts :
        /\ NumCalls(r, {"Notify"}, <<>>, FALSE) <= 1
        /\ \A j \in DOMAIN req[r].calls :
              req[r].calls[j].op = "Notify"
                  => \E i \in 1..(j - 1) :
                        req[r].calls[i].op = "LocalWrite" /\ req[r].calls[i].res = "ok"
        /\ req[r].hook # None
              => /\ Made(r, "Notify", "ok")
                 /\ req[r].hook[1].Policy = req[r].raw
                 /\ req[r].hook[1].UpdatedAt = req[r].updatedAt
                 /\ req[r].updatedAt = clock
        /\ req[r].outcome \in {"Error", "InvalidVersion", "MalformedPolicy"}
              => "Notify" \notin OpsOf(r) /\ req[r].hook = None

C25_Witness ==
    \E r \in Puts :
        /\ req[r].hook # None
        /\ req[r].raw[1].ws = "pretty"
        /\ req[r].hook[1].Policy # Some(Marshal(PolicyOf(r)))
        /\ req[r].hook[1].UpdatedAt = 2
        /\ localStore = Some(Marshal(PolicyOf(r)))

\* the ids of the two derived keys of each of a set of object names
IdsOf(names) == {DataIdOf(DerivedKey(n, i)) : n \in names, i \in 1..2}

AtRest == \A r \in Serial : req[r].pc \in {"idle", "done"}

\* C26: with requests served one at a time and every call succeeding, between
\* requests the publicly readable ids are exactly the derived keys of the names
\* extracted from the policy in the local store (none when it holds no policy).
C26_PublicObjectsMatchPolicy ==
    AtRest => perm = IF localStore = None THEN {}
                     ELSE IdsOf(NamesOf(Decode(localStore[1])))

\* C27: a request that diffed against a previous policy makes resolve and grant
\* calls only for names of the new policy that the previous one does not have,
\* and resolve and revoke calls only for names of the previous policy that the
\* new one does not have; so no name gets both, and a name of both policies
\* gets no call.
C27_OnlySymmetricDifferenceTouched ==
    \A r \in Puts :
        req[r].originalBucketPolicy # None
            => LET new == NamesOf(PolicyOf(r))
                   old == NamesOf(req[r].originalBucketPolicy[1])
               IN  \A c \in CallsOf(r) :
                       c.op \in PropagationOps
                           => /\ c.op = "Grant" => c.add
                              /\ c.op = "Revoke" => ~c.add
                              /\ \E n \in (IF c.add THEN new \ old ELSE old \ new) :
                                    \E i \in 1..2 : c.key = DerivedKey(n, i)
                              /\ \A n \in new \cap old, i \in 1..2 :
                                    c.key # DerivedKey(n, i)

C27_Witness ==
    \E r \in Puts :
        /\ req[r].pc = "done"
        /\ req[r].originalBucketPolicy # None
        /\ <<"b">> \in NamesOf(PolicyOf(r)) \cap NamesOf(req[r].originalBucketPolicy[1])
        /\ Made(r, "Revoke", "ok")
        /\ \A c \in CallsOf(r) : c.op \in PropagationOps => c.key[1] # "b" /\ c.key[2] # "b"

\* C28: a DeleteBucketPolicy request leaves the external record and the
\* permission store as they are and makes no call but the local delete and the
\* hook; on success the local store holds no policy and the hook was called
\* once, on failure the local store is unchanged and the hook was not called;
\* and a PutBucketPolicy request that loads the external record diffs against
\* the policy of that record, whatever the local store holds.
C28_DeleteTouchesLocalOnly ==
    [][\A r \in Requests :
          /\ (req'[r].kind = "Delete" /\ req'[r] # req[r])
                => /\ extStore' = extStore
                   /\ perm' = perm
                   /\ \A i \in DOMAIN req'[r].calls :
                         req'[r].calls[i].op \in {"LocalDelete", "Notify"}
                   /\ IF req'[r].outcome = "Success"
                      THEN /\ localStore' = None
                           /\ Cardinality({i \in DOMAIN req'[r].calls :
                                               req'[r].calls[i].op = "Notify"}) = 1
                      ELSE /\ localStore' = localStore
                           /\ \A i \in DOMAIN req'[r].calls :
                                 req'[r].calls[i].op # "Notify"
          /\ (req[r].pc = "Load" /\ req'[r].pc \in {"Resolve", "Validate"})
                => /\ extStore # None
                   /\ req'[r].originalBucketPolicy = Some(Decode(extStore[1]))]_vars

\* after a delete (the local store is empty though a request succeeded before),
\* a request found the record and revokes a name of the record's policy
C28_Witness ==
    \E r \in Puts :
        /\ lastPut # None
        /\ localStore = None
        /\ extStore = Some(Marshal(lastPut[1].policy))
        /\ Made(r, "Load", "ok")
        /\ req[r].originalBucketPolicy = Some(lastPut[1].policy)
        /\ Made(r, "Revoke", "ok")
        /\ perm # {}

\* C29: a request that found the external record and loaded a payload that
\* does not decode reads the previous policy from the local store and diffs
\* against it when there is one, keeps the record as existing, and in its
\* persistence step has issued an update and never a create.
C29_UndecodableRecordIsUpdated ==
    \A r \in Puts :
        Made(r, "Load", "garbled")
            => /\ req[r].modelExists
               /\ req[r].recAtLookup
               /\ req[r].pc # "LocalGet" => "LocalGet" \in OpsOf(r)
               /\ (Made(r, "LocalGet", "ok") /\ BeforeLocalWrite(r))
                     => req[r].originalBucketPolicy = Some(Decode(localStore[1]))
               /\ "Create" \notin OpsOf(r)
               /\ req[r].pc \in {"LocalWrite", "Notify"} => "Update" \in OpsOf(r)
               /\ req[r].outcome = "Success" => "Update" \in OpsOf(r)

C29_Witness ==
    \E r \in Puts :
        /\ Made(r, "Load", "garbled")
        /\ Made(r, "LocalGet", "ok")
        /\ req[r].added # <<>>
        /\ Made(r, "Update", "ok")
        /\ "Create" \notin OpsOf(r)
        /\ req[r].outcome = "Success"

====
